---------------------------- MODULE Spec2Model ----------------------------
(***************************************************************************)
(* A model of discord_logger/logger.py: the level model and its parsers,   *)
(* the logger registry (LoggerManager and get_logger), DiscordLogger.log   *)
(* on the direct-send path, and the _Dispatcher worker thread.             *)
(*                                                                         *)
(* The three parts share no state (the registry builds loggers, a logger   *)
(* sends through its own webhook, the dispatcher owns its queue), so each  *)
(* has its own next-state relation and specification; Spec composes them.  *)
(***************************************************************************)
EXTENDS Integers, Sequences, FiniteSets, TLC

(***************************************************************************)
(* Bounds of the model.                                                    *)
(***************************************************************************)
\* application threads; thread 1 is the main thread of the interpreter
NThreads == 2
\* LoggerManager() calls begun in one behaviour
MaxManagerCalls == 2

(***************************************************************************)
(* LogLevel (IntEnum) and its two parsers.                                 *)
(***************************************************************************)
NOTSET == 0
DEBUG == 10
INFO == 20
WARNING == 30
ERROR == 40
CRITICAL == 50

LogLevel ==
    [NOTSET |-> NOTSET, DEBUG |-> DEBUG, INFO |-> INFO,
     WARNING |-> WARNING, ERROR |-> ERROR, CRITICAL |-> CRITICAL]

LevelNames == DOMAIN LogLevel
LevelValues == {LogLevel[n] : n \in LevelNames}

\* LogLevel(v).name, for a valid value v
LevelName(v) == CHOOSE n \in LevelNames : LogLevel[n] = v

\* A level argument is a LogLevel member, a plain int or a str.
EnumLevel(v) == [type |-> "LogLevel", int |-> v, str |-> ""]
IntLevel(v) == [type |-> "int", int |-> v, str |-> ""]
StrLevel(s) == [type |-> "str", int |-> 0, str |-> s]

Ok(v) == [ok |-> TRUE, val |-> v, exc |-> ""]
Raise(e) == [ok |-> FALSE, val |-> 0, exc |-> e]

\* str.upper, on the strings tried as level names
Upper(s) == IF s = "error" THEN "ERROR" ELSE s

\* variant: a parser that looks the name up whatever its case
parse_level_to_int_any_case(lv) ==
    IF lv.type = "LogLevel" THEN Ok(lv.int)
    ELSE IF lv.type = "int" THEN Ok(lv.int)
    ELSE IF Upper(lv.str) \in LevelNames THEN Ok(LogLevel[Upper(lv.str)])
    ELSE Raise("KeyError")

\* _parse_level_to_int: an int is returned as it is, whether or not it is a level
parse_level_to_int(lv) ==
    IF lv.type = "LogLevel" THEN Ok(lv.int)
    ELSE IF lv.type = "int" THEN Ok(lv.int)
    ELSE IF lv.str \in LevelNames THEN Ok(LogLevel[lv.str])
    ELSE Raise("KeyError")

\* _parse_level, and DiscordLogger._set_log_level, which has the same body
parse_level(lv) ==
    IF lv.type = "LogLevel" THEN Ok(lv.int)
    ELSE IF lv.type = "int"
         THEN IF lv.int \in LevelValues THEN Ok(lv.int) ELSE Raise("ValueError")
    ELSE IF lv.str \in LevelNames THEN Ok(LogLevel[lv.str])
    ELSE Raise("KeyError")

optional_keys == <<"thread_name", "process_name", "func_name", "module_name", "line_number">>
OptionalKeySet == {optional_keys[i] : i \in DOMAIN optional_keys}

(***************************************************************************)
(* State.                                                                  *)
(***************************************************************************)
VARIABLES
    \* ---- registry ----
    instance,         \* LoggerManager._instance: 0 is None, else the manager's id
    manager,          \* the module global "manager": 0 until the import has bound it
    lock,             \* LoggerManager._lock: 0 is free, else the holding thread
    registry,         \* _instance._registry: name -> logger id, 0 is "not in"
    loggers,          \* every DiscordLogger constructed so far, by id
    dispatchers,      \* number of _Dispatcher objects constructed so far
    sigHandler,       \* signal -> id of the dispatcher whose _sig_handler is installed
    envUrl,           \* os.environ.get(_ENV_URL_KEY), "" when not set
    rpc,              \* per thread: position in its LoggerManager() or get_logger call
    rcall,            \* per thread: the arguments of the call in progress
    robj,             \* per thread: local values of the call in progress
    rret,             \* per thread: outcome of its last finished call
    managersCreated,  \* history: LoggerManager objects created by __new__
    firstReg,         \* history: name -> the logger id first stored in the registry
    mcalls,           \* history: LoggerManager() calls begun
    failedNames,      \* history: the names for which a get_logger call has raised
    cargs,            \* the arguments of the last direct DiscordLogger(...) call
    cres,             \* its outcome: the object constructed, or the exception raised
    \* ---- one DiscordLogger and the threads calling its log ----
    level,            \* self._level
    optional_fields,  \* self._optional_fields: the keys whose flag is True
    embeds,           \* self._webhook.embeds
    lpc,              \* per thread: position in its log call
    lcall,            \* per thread: the arguments of the log call in progress
    lrec,             \* per thread: log_record, local to the call
    lresp,            \* per thread: response.status_code, local to the call
    lsent,            \* per thread: the POSTs the call in progress has made
    lwarn,            \* per thread: the warnings the call in progress has raised
    linspect,         \* per thread: _find_caller runs of the call in progress
    lattach,          \* per thread: embeds the call in progress has attached
    last,             \* history: the log call that finished last and what it did,
                      \*   until the next operation on the logger
    failedBefore,     \* history: an earlier call than last was answered with a status # 200
    \* ---- one _Dispatcher ----
    queue,            \* self._queue: the LogPayloads put and not yet taken
    stop_event,       \* self._stop_event.is_set()
    dpc,              \* position of the worker thread in run
    payload,          \* run's local "payload": the one taken last
    webhooks,         \* _dispatch's local list of webhooks, each with its embeds
    widx,             \* _dispatch: index of the next webhook to execute
    dsent,            \* history: the POSTs made for the payload taken last
    dwarn,            \* history: the delivery warnings raised for the payload taken last
    dequeued,         \* history: the ids of the payloads taken, in the order taken
    nput,             \* history: payloads put so far; the next one gets id nput + 1
    sigpc,            \* position of the main thread in _sig_handler
    nsig,             \* history: signals delivered
    stopWarnings,     \* history: "Dispatcher queue not empty" warnings raised
    stopDuring,       \* history: a stop was requested while the payload taken last
                      \*   was being delivered
    firstStop,        \* history: whether the worker was waiting in get, and how many
                      \*   payloads it had taken, when the stop event was first set
    failedEarlier     \* history: a POST for a payload taken before the last one was
                      \*   answered with a status # 200

rvars == <<instance, manager, lock, registry, loggers, dispatchers, sigHandler, envUrl,
           rpc, rcall, robj, rret, managersCreated, firstReg, mcalls, failedNames, cargs, cres>>

lvars == <<level, optional_fields, embeds, lpc, lcall, lrec, lresp, lsent, lwarn,
           linspect, lattach, last, failedBefore>>

dvars == <<queue, stop_event, dpc, payload, webhooks, widx, dsent, dwarn, dequeued,
           nput, sigpc, nsig, stopWarnings, stopDuring, firstStop, failedEarlier>>

vars == <<rvars, lvars, dvars>>

(***************************************************************************)
(* Registry: LoggerManager and get_logger.                                 *)
(***************************************************************************)
Threads == 1..NThreads
\* signal.signal works in the main thread of the main interpreter only
IsMainThread(t) == t = 1

Names == {"A", "B"}
\* a name argument: a str, or an object that is not a str
StrName(n) == [isstr |-> TRUE, val |-> n]
NameArgs == {StrName(n) : n \in Names} \cup {[isstr |-> FALSE, val |-> "7"]}

DummyUrl == "https://dummy.com"

\* keyword arguments of get_logger / DiscordLogger.__init__
Kwargs(url, lv, fields) == [webhook_url |-> url, level |-> lv, fields |-> fields]
KwargSets ==
    {Kwargs("https://u1", StrLevel("DEBUG"), OptionalKeySet),
     Kwargs("", EnumLevel(INFO), {})}

\* sig_to_handle on a platform other than win32
sig_to_handle == {"SIGINT", "SIGHUP"}

NoCall == [op |-> "", name |-> "", kwargs |-> Kwargs("", EnumLevel(INFO), {}), late |-> FALSE, retry |-> FALSE]
\* the outcome of a finished call: what it returned or raised, and for which call
NoRet == [kind |-> "none", val |-> 0, exc |-> "", op |-> "", name |-> "", late |-> FALSE, retry |-> FALSE]
Returned(call, kind, v) ==
    [kind |-> kind, val |-> v, exc |-> "", op |-> call.op, name |-> call.name, late |-> call.late, retry |-> call.retry]
Raised(call, e) ==
    [kind |-> "raise", val |-> 0, exc |-> e, op |-> call.op, name |-> call.name, late |-> call.late, retry |-> call.retry]

\* _get_webhook_url
get_webhook_url(env) == IF env # "" THEN Ok(env) ELSE Raise("EnvironmentError")

\* DiscordLogger.__init__: the new logger, or the exception it raises
DiscordLoggerInit(name, kwargs, env) ==
    LET url == IF kwargs.webhook_url = "" THEN get_webhook_url(env)
               ELSE Ok(kwargs.webhook_url)
        lvl == parse_level(kwargs.level)
    IN  IF ~url.ok THEN [ok |-> FALSE, exc |-> url.exc, obj |-> <<>>]
        ELSE IF ~lvl.ok THEN [ok |-> FALSE, exc |-> lvl.exc, obj |-> <<>>]
        ELSE [ok |-> TRUE, exc |-> "",
              obj |-> [app_name |-> name, url |-> url.val, level |-> lvl.val,
                       optional_fields |-> kwargs.fields]]

\* The arguments of a direct call DiscordLogger(name, webhook_url=..., level=...,
\* embed_*=..., **discord_webhook_kwargs): flags are the embed_<key> arguments
\* passed True, all is embed_all, extra the names of the keyword arguments that
\* __init__ does not declare and so collects in discord_webhook_kwargs.
ConstructArgs(name, url, lv, flags, all, extra) ==
    [name |-> name, webhook_url |-> url, level |-> lv, flags |-> flags,
     embed_all |-> all, extra |-> extra]
NoConstructArgs == ConstructArgs("", "", EnumLevel(INFO), {}, FALSE, {})
NoConstructed == [kind |-> "none", exc |-> "", obj |-> <<>>]

\* DiscordLogger.__init__ with every argument.  DiscordWebhook(url=..., **extra)
\* belongs to the discord_webhook library: given a keyword it does not know it
\* either ignores it or raises TypeError (rejects), depending on the library.
DiscordLoggerInitAll(args, env, rejects) ==
    LET fields == IF args.embed_all THEN OptionalKeySet ELSE args.flags
        base == DiscordLoggerInit(args.name, Kwargs(args.webhook_url, args.level, fields), env)
    IN  IF ~base.ok /\ base.exc = "EnvironmentError"
        THEN [kind |-> "raise", exc |-> base.exc, obj |-> <<>>]
        ELSE IF args.extra # {} /\ rejects
        THEN [kind |-> "raise", exc |-> "TypeError", obj |-> <<>>]
        ELSE IF ~base.ok
        THEN [kind |-> "raise", exc |-> base.exc, obj |-> <<>>]
        ELSE [kind |-> "logger", exc |-> "",
              obj |-> [app_name |-> base.obj.app_name, url |-> base.obj.url,
                       level |-> base.obj.level,
                       optional_fields |-> base.obj.optional_fields,
                       webhook_kwargs |-> args.extra]]

\* The state in which the import of the module reaches "manager = LoggerManager()".
InitRegistry ==
    /\ instance = 0
    /\ manager = 0
    /\ lock = 0
    /\ registry = [n \in Names |-> 0]
    /\ loggers = <<>>
    /\ dispatchers = 0
    /\ sigHandler = [s \in sig_to_handle |-> 0]
    /\ envUrl \in {"", DummyUrl}
    /\ rpc = [t \in Threads |-> "idle"]
    /\ rcall = [t \in Threads |-> NoCall]
    /\ robj = [t \in Threads |-> 0]
    /\ rret = [t \in Threads |-> NoRet]
    /\ managersCreated = 0
    /\ firstReg = [n \in Names |-> 0]
    /\ mcalls = 0
    /\ failedNames = {}
    /\ cargs = NoConstructArgs
    /\ cres = NoConstructed

\* LoggerManager(): the call begins, type.__call__ enters __new__.  The first
\* call is the module's own, made by the importing thread while no other
\* thread can use the module; the signal handlers the call installs require
\* that thread to be the main one.
ManagerCall(t) ==
    /\ rpc[t] = "idle"
    /\ manager # 0 \/ (IsMainThread(t) /\ mcalls = 0)
    /\ mcalls < MaxManagerCalls
    /\ mcalls' = mcalls + 1
    /\ rpc' = [rpc EXCEPT ![t] = "new_lock"]
    /\ rcall' = [rcall EXCEPT ![t] = [NoCall EXCEPT !.op = "LoggerManager"]]
    /\ rret' = [rret EXCEPT ![t] = NoRet]
    /\ robj' = [robj EXCEPT ![t] = 0]
    /\ UNCHANGED <<instance, manager, lock, registry, loggers, dispatchers, sigHandler,
                   envUrl, managersCreated, firstReg>>
    /\ UNCHANGED <<failedNames, cargs, cres>>
    /\ UNCHANGED <<lvars, dvars>>

\* __new__: with cls._lock
NewAcquire(t) ==
    /\ rpc[t] = "new_lock"
    /\ lock = 0
    /\ lock' = t
    /\ rpc' = [rpc EXCEPT ![t] = "new_check"]
    /\ UNCHANGED <<instance, manager, registry, loggers, dispatchers, sigHandler, envUrl,
                   rcall, robj, rret, managersCreated, firstReg, mcalls>>
    /\ UNCHANGED <<failedNames, cargs, cres>>
    /\ UNCHANGED <<lvars, dvars>>

\* __new__: if cls._instance is None: create it, with an empty registry
NewCheck(t) ==
    /\ rpc[t] = "new_check"
    /\ IF instance = 0
       THEN /\ instance' = managersCreated + 1
            /\ managersCreated' = managersCreated + 1
            /\ registry' = [n \in Names |-> 0]
       ELSE UNCHANGED <<instance, managersCreated, registry>>
    /\ rpc' = [rpc EXCEPT ![t] = "new_release"]
    /\ UNCHANGED <<manager, lock, loggers, dispatchers, sigHandler, envUrl, rcall, robj,
                   rret, firstReg, mcalls>>
    /\ UNCHANGED <<failedNames, cargs, cres>>
    /\ UNCHANGED <<lvars, dvars>>

\* __new__: the with block ends, then return cls._instance
NewRelease(t) ==
    /\ rpc[t] = "new_release"
    /\ lock' = IF lock = t THEN 0 ELSE lock
    /\ robj' = [robj EXCEPT ![t] = instance]
    /\ rpc' = [rpc EXCEPT ![t] = "init"]
    /\ UNCHANGED <<instance, manager, registry, loggers, dispatchers, sigHandler, envUrl,
                   rcall, rret, managersCreated, firstReg, mcalls>>
    /\ UNCHANGED <<failedNames, cargs, cres>>
    /\ UNCHANGED <<lvars, dvars>>

\* __init__, run by every LoggerManager() call: dispatcher = _Dispatcher().
\* _Dispatcher.__init__ installs its _sig_handler with signal.signal, which
\* raises ValueError in any thread but the main one.
ManagerInit(t) ==
    /\ rpc[t] = "init"
    /\ dispatchers' = dispatchers + 1
    /\ IF IsMainThread(t)
       THEN /\ sigHandler' = [s \in sig_to_handle |-> dispatchers + 1]
            /\ rret' = [rret EXCEPT ![t] = Returned(rcall[t], "manager", robj[t])]
       ELSE /\ UNCHANGED sigHandler
            /\ rret' = [rret EXCEPT ![t] = Raised(rcall[t], "ValueError")]
    /\ manager' = IF manager = 0 THEN robj[t] ELSE manager
    /\ rpc' = [rpc EXCEPT ![t] = "idle"]
    /\ rcall' = [rcall EXCEPT ![t] = NoCall]
    /\ robj' = [robj EXCEPT ![t] = 0]
    /\ UNCHANGED <<instance, lock, registry, loggers, envUrl,
                   managersCreated, firstReg, mcalls>>
    /\ UNCHANGED <<failedNames, cargs, cres>>
    /\ UNCHANGED <<lvars, dvars>>

\* variant: a get_logger that stores an entry for the name before it knows
\* that the construction succeeds, so that a failed call leaves the entry behind
GetLoggerCallReserving(t, name, kwargs) ==
    LET call == [op |-> "get_logger", name |-> name.val, kwargs |-> kwargs,
                 late |-> name.isstr /\ registry[name.val] # 0,
                 retry |-> name.isstr /\ name.val \in failedNames]
        new == DiscordLoggerInit(name.val, kwargs, envUrl)
        unbuilt == [app_name |-> name.val, url |-> "", level |-> INFO, optional_fields |-> {}]
    IN  /\ rpc[t] = "idle"
        /\ manager # 0
        /\ IF ~name.isstr
           THEN /\ rret' = [rret EXCEPT ![t] = Raised(call, "TypeError")]
                /\ UNCHANGED <<rpc, rcall, robj, loggers, registry>>
           ELSE IF registry[name.val] # 0
           THEN /\ rpc' = [rpc EXCEPT ![t] = "gl_return"]
                /\ rcall' = [rcall EXCEPT ![t] = call]
                /\ rret' = [rret EXCEPT ![t] = NoRet]
                /\ UNCHANGED <<robj, loggers, registry>>
           ELSE IF new.ok
           THEN /\ loggers' = Append(loggers, new.obj)
                /\ robj' = [robj EXCEPT ![t] = Len(loggers) + 1]
                /\ rpc' = [rpc EXCEPT ![t] = "gl_insert"]
                /\ rcall' = [rcall EXCEPT ![t] = call]
                /\ rret' = [rret EXCEPT ![t] = NoRet]
                /\ UNCHANGED registry
           ELSE /\ rret' = [rret EXCEPT ![t] = Raised(call, new.exc)]
                /\ loggers' = Append(loggers, unbuilt)
                /\ registry' = [registry EXCEPT ![name.val] = Len(loggers) + 1]
                /\ UNCHANGED <<rpc, rcall, robj>>
        /\ failedNames' = IF name.isstr /\ registry[name.val] = 0 /\ ~new.ok
                          THEN failedNames \cup {name.val} ELSE failedNames
        /\ UNCHANGED <<cargs, cres>>
        /\ UNCHANGED <<instance, manager, lock, dispatchers, sigHandler,
                       envUrl, managersCreated, firstReg, mcalls>>
        /\ UNCHANGED <<lvars, dvars>>

\* get_logger(name, **kwargs), up to the construction of the logger: the
\* isinstance checks, "if name not in self._registry" and, when the name is
\* not in, self._factory(name, **kwargs).  The new logger is local to the call
\* until GetLoggerInsert stores it.
GetLoggerCall(t, name, kwargs) ==
    LET call == [op |-> "get_logger", name |-> name.val, kwargs |-> kwargs,
                 late |-> name.isstr /\ registry[name.val] # 0,
                 retry |-> name.isstr /\ name.val \in failedNames]
        new == DiscordLoggerInit(name.val, kwargs, envUrl)
    IN  /\ rpc[t] = "idle"
        /\ manager # 0
        /\ IF ~name.isstr
           THEN /\ rret' = [rret EXCEPT ![t] = Raised(call, "TypeError")]
                /\ UNCHANGED <<rpc, rcall, robj, loggers>>
           ELSE IF registry[name.val] # 0
           THEN /\ rpc' = [rpc EXCEPT ![t] = "gl_return"]
                /\ rcall' = [rcall EXCEPT ![t] = call]
                /\ rret' = [rret EXCEPT ![t] = NoRet]
                /\ UNCHANGED <<robj, loggers>>
           ELSE IF new.ok
           THEN /\ loggers' = Append(loggers, new.obj)
                /\ robj' = [robj EXCEPT ![t] = Len(loggers) + 1]
                /\ rpc' = [rpc EXCEPT ![t] = "gl_insert"]
                /\ rcall' = [rcall EXCEPT ![t] = call]
                /\ rret' = [rret EXCEPT ![t] = NoRet]
           ELSE /\ rret' = [rret EXCEPT ![t] = Raised(call, new.exc)]
                /\ UNCHANGED <<rpc, rcall, robj, loggers>>
        /\ failedNames' = IF name.isstr /\ registry[name.val] = 0 /\ ~new.ok
                          THEN failedNames \cup {name.val} ELSE failedNames
        /\ UNCHANGED <<cargs, cres>>
        /\ UNCHANGED <<instance, manager, lock, registry, dispatchers, sigHandler,
                       envUrl, managersCreated, firstReg, mcalls>>
        /\ UNCHANGED <<lvars, dvars>>

\* LoggerManager.get_logger: self._registry[name] = <the new logger>
GetLoggerInsert(t) ==
    /\ rpc[t] = "gl_insert"
    /\ registry' = [registry EXCEPT ![rcall[t].name] = robj[t]]
    /\ firstReg' = IF firstReg[rcall[t].name] = 0
                   THEN [firstReg EXCEPT ![rcall[t].name] = robj[t]]
                   ELSE firstReg
    /\ rpc' = [rpc EXCEPT ![t] = "gl_return"]
    /\ UNCHANGED <<instance, manager, lock, loggers, dispatchers, sigHandler, envUrl,
                   rcall, robj, rret, managersCreated, mcalls>>
    /\ UNCHANGED <<failedNames, cargs, cres>>
    /\ UNCHANGED <<lvars, dvars>>

\* LoggerManager.get_logger: return self._registry[name]
GetLoggerReturn(t) ==
    /\ rpc[t] = "gl_return"
    /\ rret' = [rret EXCEPT ![t] = Returned(rcall[t], "logger", registry[rcall[t].name])]
    /\ rpc' = [rpc EXCEPT ![t] = "idle"]
    /\ rcall' = [rcall EXCEPT ![t] = NoCall]
    /\ robj' = [robj EXCEPT ![t] = 0]
    /\ UNCHANGED <<instance, manager, lock, registry, loggers, dispatchers, sigHandler,
                   envUrl, managersCreated, firstReg, mcalls>>
    /\ UNCHANGED <<failedNames, cargs, cres>>
    /\ UNCHANGED <<lvars, dvars>>

\* DiscordLogger(...), called directly: the whole of __init__
Construct(args, rejects) ==
    /\ manager # 0
    /\ cargs' = args
    /\ cres' = DiscordLoggerInitAll(args, envUrl, rejects)
    /\ UNCHANGED <<instance, manager, lock, registry, loggers, dispatchers, sigHandler,
                   envUrl, rpc, rcall, robj, rret, managersCreated, firstReg, mcalls,
                   failedNames>>
    /\ UNCHANGED <<lvars, dvars>>

NextRegistry ==
    \/ \E t \in Threads : ManagerCall(t)
    \/ \E t \in Threads : NewAcquire(t)
    \/ \E t \in Threads : NewCheck(t)
    \/ \E t \in Threads : NewRelease(t)
    \/ \E t \in Threads : ManagerInit(t)
    \/ \E t \in Threads, name \in NameArgs, kwargs \in KwargSets : GetLoggerCall(t, name, kwargs)
    \/ \E t \in Threads : GetLoggerInsert(t)
    \/ \E t \in Threads : GetLoggerReturn(t)

(***************************************************************************)
(* DiscordLogger: log on the direct-send path, and the property setters.   *)
(***************************************************************************)
\* an optional value: None, a str or an int
None == [some |-> FALSE, str |-> "", int |-> 0]
StrVal(x) == [some |-> TRUE, str |-> x, int |-> 0]
IntVal(x) == [some |-> TRUE, str |-> "", int |-> x]

\* deepest stack of application frames from which log is called
MaxDepth == 3

Messages == {"x", "y"}
\* response.status_code
StatusOk == 200
Statuses == {StatusOk, 400}

\* the level arguments tried: members, ints that are levels and ints that are
\* not, names, and strings that are no name (wrong case, unknown)
LevelArgs ==
    {EnumLevel(v) : v \in LevelValues}
        \cup {IntLevel(v) : v \in {5, WARNING, 60}}
        \cup {StrLevel(x) : x \in {"ERROR", "error"}}

AppName == "MyApp"
LoggerUrl == "https://discord.com/webhook"
package_name == "Discord-Logger"

LevelColor ==
    [NOTSET |-> "000000", DEBUG |-> "D5EAD8", INFO |-> "1974D2",
     WARNING |-> "FFE135", ERROR |-> "C90913", CRITICAL |-> "C90913"]

embedded_key_to_name ==
    [thread_name |-> "Thread", process_name |-> "Process", func_name |-> "Function",
     module_name |-> "Module", line_number |-> "Line"]

\* A frame of the call stack: file name (its path components), line, function.
Frame(path, line, func) == [filename |-> path, lineno |-> line, function |-> func]
LoggerFile == <<"site-packages", "discord_logger", "logger.py">>
FunctionNames == <<"<module>", "f2", "f3", "f4", "f5", "f6">>
ModuleFiles == <<"main.py", "mod2.py", "mod3.py", "mod4.py", "mod5.py", "mod6.py">>
\* the i-th application frame, counted from the outermost (the script's module level)
AppFrame(i) == Frame(<<"srv", "app", ModuleFiles[i]>>, 10 * i, FunctionNames[i])

\* the frames of threading.py under the target of a thread that is not the
\* main one, innermost first
ThreadingFile == <<"lib", "python3", "threading.py">>
ThreadFrames ==
    <<Frame(ThreadingFile, 982, "run"),
      Frame(ThreadingFile, 1045, "_bootstrap_inner"),
      Frame(ThreadingFile, 1002, "_bootstrap")>>

\* The stack inspect.getouterframes sees inside _find_caller when thread t
\* calls log from an application stack of depth d: innermost frame first.  In
\* the main thread the outermost frame is the script's module level; in any
\* other thread the application frames stand on those of threading.py.
CallStack(d, t) ==
    <<Frame(LoggerFile, 135, "_find_caller"),
      Frame(LoggerFile, 390, "get_fields"),
      Frame(LoggerFile, 366, "log")>>
        \o [i \in 1..d |-> AppFrame(d + 1 - i)]
        \o (IF IsMainThread(t) THEN <<>> ELSE ThreadFrames)

\* _find_caller: inspect.getouterframes(cur_frame, 1)[-2]
find_caller(stack) == stack[Len(stack) - 1]

\* caller_path.split("/")[-1]
LastComponent(path) == path[Len(path)]

ThreadName(t) == IF t = 1 THEN "MainThread" ELSE "Thread-N"
ProcessName == "MainProcess"

\* DiscordLogger.get_fields: key -> value of the fields to embed, None when absent
get_fields(flags, stack, t) ==
    LET caller == find_caller(stack)
        inspected == flags # {}
    IN  [thread_name |-> IF "thread_name" \in flags THEN StrVal(ThreadName(t)) ELSE None,
         process_name |-> IF "process_name" \in flags THEN StrVal(ProcessName) ELSE None,
         func_name |-> IF inspected /\ "func_name" \in flags
                       THEN StrVal(caller.function) ELSE None,
         module_name |-> IF inspected /\ "module_name" \in flags
                         THEN StrVal(LastComponent(caller.filename)) ELSE None,
         line_number |-> IF inspected /\ "line_number" \in flags
                         THEN IntVal(caller.lineno) ELSE None]

\* whether get_fields runs _find_caller: any([self._optional_fields[k] ...])
InspectsCaller(flags) == flags # {}

\* the fields of the LogRecord dataclass, in declaration order
RecordFields ==
    <<"level", "app_name", "message", "thread_name", "process_name",
      "line_number", "func_name", "module_name">>

LogRecord(lv, app, msg, fields) ==
    [level |-> lv, app_name |-> app, message |-> msg,
     thread_name |-> fields.thread_name, process_name |-> fields.process_name,
     line_number |-> fields.line_number, func_name |-> fields.func_name,
     module_name |-> fields.module_name]

NoRecord == LogRecord(NOTSET, "", "", [k \in OptionalKeySet |-> None])

\* variant: get_optional_fields without the "v is not None" test
get_optional_fields_with_none(rec) ==
    SelectSeq(RecordFields, LAMBDA k : k \in OptionalKeySet)

\* LogRecord.get_optional_fields: the optional keys that are not None, in the
\* order of dataclasses.asdict, which is the declaration order
get_optional_fields(rec) ==
    SelectSeq(RecordFields, LAMBDA k : k \in OptionalKeySet /\ rec[k].some)

\* format_payload_embedded (the timestamp, which no operation reads, is left out)
format_payload_embedded(rec) ==
    LET keys == get_optional_fields(rec)
    IN  [title |-> LevelName(rec.level),
         description |-> rec.message,
         author |-> rec.app_name,
         footer |-> package_name,
         color |-> LevelColor[LevelName(rec.level)],
         fields |-> [i \in DOMAIN keys |->
                        [name |-> embedded_key_to_name[keys[i]], value |-> rec[keys[i]]]]]

\* the arguments of a log call, with the thread that makes it, the depth of its
\* application stack, and the threshold and flags of the logger as the call begins
LogCallArgs(t, lv, msg, d, th, flags) ==
    [thread |-> t, level |-> lv, message |-> msg, depth |-> d,
     threshold |-> th, flags |-> flags]
NoLogCall == LogCallArgs(0, EnumLevel(NOTSET), "", 0, NOTSET, {})

\* a POST made by execute: what it carried and the status answered
Post(url, es, status) == [url |-> url, embeds |-> es, status |-> status]
\* warnings.warn(f"Failed to send log. Status code: {response.status_code}")
LogWarning(status) == [text |-> "Failed to send log", url |-> "", status |-> status]

\* what a finished call did
Finished(call, out, sent, warns, inspects, attached) ==
    [call |-> call, out |-> out, sent |-> sent, warn |-> warns,
     inspect |-> inspects, attach |-> attached]
NoLast == Finished(NoLogCall, "none", <<>>, <<>>, 0, 0)

InitLogger ==
    /\ level \in LevelValues
    /\ optional_fields \in {{}, OptionalKeySet}
    /\ embeds = <<>>
    /\ lpc = [t \in Threads |-> "idle"]
    /\ lcall = [t \in Threads |-> NoLogCall]
    /\ lrec = [t \in Threads |-> NoRecord]
    /\ lresp = [t \in Threads |-> 0]
    /\ lsent = [t \in Threads |-> <<>>]
    /\ lwarn = [t \in Threads |-> <<>>]
    /\ linspect = [t \in Threads |-> 0]
    /\ lattach = [t \in Threads |-> 0]
    /\ last = NoLast
    /\ failedBefore = FALSE

\* variant: a filter that also drops the calls made at the threshold itself
BelowOrAtThreshold(level_int, threshold) == level_int <= threshold

\* log, line 363: if level_int < self._level.value
BelowThreshold(level_int, threshold) == level_int < threshold

\* a call has finished: last describes it, and the earlier one joins the history
Finish(fin) ==
    /\ last' = fin
    /\ failedBefore' = (failedBefore \/ \E i \in DOMAIN last.sent : last.sent[i].status # StatusOk)

\* log(level, message), lines 361-377: the level filter, the caller's fields
\* and the record.  The call ends here when the level does not parse (the
\* exception propagates) or is below the threshold.
LogCall(t, lv, msg, d) ==
    LET level_int == parse_level_to_int(lv)
        log_level == parse_level(lv)
        call == LogCallArgs(t, lv, msg, d, level, optional_fields)
        ended(out) == /\ Finish(Finished(call, out, <<>>, <<>>, 0, 0))
                      /\ UNCHANGED <<lpc, lcall, lrec, linspect>>
    IN  /\ lpc[t] = "idle"
        /\ IF ~level_int.ok THEN ended(level_int.exc)
           ELSE IF BelowThreshold(level_int.val, level) THEN ended("filtered")
           ELSE IF ~log_level.ok THEN ended(log_level.exc)
           ELSE /\ lcall' = [lcall EXCEPT ![t] = call]
                /\ lrec' = [lrec EXCEPT ![t] =
                               LogRecord(log_level.val, AppName, msg,
                                         get_fields(optional_fields, CallStack(d, t), t))]
                /\ linspect' = [linspect EXCEPT ![t] =
                                   IF InspectsCaller(optional_fields) THEN 1 ELSE 0]
                /\ lpc' = [lpc EXCEPT ![t] = "dispatch_embed"]
                /\ last' = NoLast
                /\ UNCHANGED failedBefore
        /\ UNCHANGED <<level, optional_fields, embeds, lresp, lsent, lwarn, lattach>>
        /\ UNCHANGED <<rvars, dvars>>

\* log, line 378: self._dispatch_embed(log_record)
DispatchEmbed(t) ==
    /\ lpc[t] = "dispatch_embed"
    /\ embeds' = Append(embeds, format_payload_embedded(lrec[t]))
    /\ lattach' = [lattach EXCEPT ![t] = @ + 1]
    /\ lpc' = [lpc EXCEPT ![t] = "execute"]
    /\ UNCHANGED <<level, optional_fields, lcall, lrec, lresp, lsent, lwarn,
                   linspect, last, failedBefore>>
    /\ UNCHANGED <<rvars, dvars>>

\* log, line 379: self._webhook.execute(remove_embeds=True), first half: the
\* POST carries the embeds the webhook holds and is answered with a status
ExecutePost(t, status) ==
    /\ lpc[t] = "execute"
    /\ lsent' = [lsent EXCEPT ![t] = Append(@, Post(LoggerUrl, embeds, status))]
    /\ lresp' = [lresp EXCEPT ![t] = status]
    /\ lpc' = [lpc EXCEPT ![t] = "remove_embeds"]
    /\ UNCHANGED <<level, optional_fields, embeds, lcall, lrec, lwarn, linspect,
                   lattach, last, failedBefore>>
    /\ UNCHANGED <<rvars, dvars>>

\* execute(remove_embeds=True), second half: the webhook drops its embeds,
\* whatever the status was
ExecuteRemoveEmbeds(t) ==
    /\ lpc[t] = "remove_embeds"
    /\ embeds' = <<>>
    /\ lpc' = [lpc EXCEPT ![t] = "response"]
    /\ UNCHANGED <<level, optional_fields, lcall, lrec, lresp, lsent, lwarn,
                   linspect, lattach, last, failedBefore>>
    /\ UNCHANGED <<rvars, dvars>>

\* variant: log that does not look at the status of the response
LogResponseUnchecked(t) ==
    /\ lpc[t] = "response"
    /\ Finish(Finished(lcall[t], "sent", lsent[t], lwarn[t], linspect[t], lattach[t]))
    /\ lpc' = [lpc EXCEPT ![t] = "idle"]
    /\ lcall' = [lcall EXCEPT ![t] = NoLogCall]
    /\ lrec' = [lrec EXCEPT ![t] = NoRecord]
    /\ lresp' = [lresp EXCEPT ![t] = 0]
    /\ lsent' = [lsent EXCEPT ![t] = <<>>]
    /\ lwarn' = [lwarn EXCEPT ![t] = <<>>]
    /\ linspect' = [linspect EXCEPT ![t] = 0]
    /\ lattach' = [lattach EXCEPT ![t] = 0]
    /\ UNCHANGED <<level, optional_fields, embeds>>
    /\ UNCHANGED <<rvars, dvars>>

\* log, lines 380-381: warn when the status is not 200; the call returns
LogResponse(t) ==
    LET warns == IF lresp[t] # StatusOk THEN Append(lwarn[t], LogWarning(lresp[t]))
                 ELSE lwarn[t]
    IN  /\ lpc[t] = "response"
        /\ Finish(Finished(lcall[t], "sent", lsent[t], warns, linspect[t], lattach[t]))
        /\ lpc' = [lpc EXCEPT ![t] = "idle"]
        /\ lcall' = [lcall EXCEPT ![t] = NoLogCall]
        /\ lrec' = [lrec EXCEPT ![t] = NoRecord]
        /\ lresp' = [lresp EXCEPT ![t] = 0]
        /\ lsent' = [lsent EXCEPT ![t] = <<>>]
        /\ lwarn' = [lwarn EXCEPT ![t] = <<>>]
        /\ linspect' = [linspect EXCEPT ![t] = 0]
        /\ lattach' = [lattach EXCEPT ![t] = 0]
        /\ UNCHANGED <<level, optional_fields, embeds>>
        /\ UNCHANGED <<rvars, dvars>>

\* the level setter: self._set_log_level(value); an invalid value raises and
\* leaves the level as it was
SetLevel(lv) ==
    /\ level' = IF parse_level(lv).ok THEN parse_level(lv).val ELSE level
    /\ Finish(NoLast)
    /\ UNCHANGED <<optional_fields, embeds, lpc, lcall, lrec, lresp, lsent, lwarn,
                   linspect, lattach>>
    /\ UNCHANGED <<rvars, dvars>>

\* the embed_* setters: self._optional_fields[key] = value
SetEmbed(key, value) ==
    /\ optional_fields' = IF value THEN optional_fields \cup {key}
                          ELSE optional_fields \ {key}
    /\ Finish(NoLast)
    /\ UNCHANGED <<level, embeds, lpc, lcall, lrec, lresp, lsent, lwarn,
                   linspect, lattach>>
    /\ UNCHANGED <<rvars, dvars>>

\* the flags the specifications toggle after construction: one that needs the
\* caller's frame and one that does not
ToggledKeys == {"thread_name", "line_number"}

\* no log call is in progress
NoLogInProgress == \A t \in Threads : lpc[t] = "idle"

\* the logger used by one caller at a time
NextLogger ==
    \/ \E t \in Threads, lv \in LevelArgs, msg \in Messages, d \in 1..MaxDepth :
           NoLogInProgress /\ LogCall(t, lv, msg, d)
    \/ \E t \in Threads : DispatchEmbed(t)
    \/ \E t \in Threads, status \in Statuses : ExecutePost(t, status)
    \/ \E t \in Threads : ExecuteRemoveEmbeds(t)
    \/ \E t \in Threads : LogResponse(t)
    \/ \E lv \in LevelArgs : NoLogInProgress /\ SetLevel(lv)
    \/ \E key \in ToggledKeys, value \in BOOLEAN : NoLogInProgress /\ SetEmbed(key, value)

(***************************************************************************)
(* _Dispatcher: the worker thread, its queue, stop() and the signal        *)
(* handler.  Thread.start() and Queue.put are the callers' operations.     *)
(***************************************************************************)
\* payloads put in one behaviour
MaxPuts == 3
\* destinations of one payload
MaxUrls == 2
\* signals delivered in one behaviour
MaxSignals == 1

\* the i-th destination URL
DestUrl(i) == <<"https://hook", i>>
\* payload.url: the first n destinations, for n up to MaxUrls.  (The
\* annotation also lets url be one str, which _dispatch would iterate by
\* character; the payloads put here all carry a sequence of URLs.)
UrlLists == {[i \in 1..n |-> DestUrl(i)] : n \in 0..MaxUrls}

\* payload.payload: the record carried by the n-th payload put; odd and even
\* payloads differ in level, message and optional fields
QueuedRecord(n) ==
    IF n % 2 = 1
    THEN LogRecord(ERROR, AppName, "x", [k \in OptionalKeySet |-> None])
    ELSE LogRecord(INFO, AppName, "y",
                   [[k \in OptionalKeySet |-> None] EXCEPT !.thread_name = StrVal("MainThread")])

LogPayload(id, rec, urls) == [id |-> id, payload |-> rec, url |-> urls]
NoPayload == LogPayload(0, NoRecord, <<>>)

\* warnings.warn(f"Failed to log message to {webhook.url}, status code: ...")
DispatchWarning(url, status) == [text |-> "Failed to log message to", url |-> url, status |-> status]

\* the worker has passed the loop test and waits in self._queue.get(timeout=1)
Waiting == dpc = "get"

\* self._stop_event.set(): what the first set of the event found: whether
\* the worker was waiting in get, and how many payloads it had taken
StopRequest(waiting, taken) == [set |-> TRUE, waiting |-> waiting, taken |-> taken]
NoStop == [set |-> FALSE, waiting |-> FALSE, taken |-> 0]

\* _Dispatcher.__init__: the state of a dispatcher just constructed
InitDispatcher ==
    /\ queue = <<>>
    /\ stop_event = FALSE
    /\ dpc = "init"
    /\ payload = NoPayload
    /\ webhooks = <<>>
    /\ widx = 0
    /\ dsent = <<>>
    /\ dwarn = <<>>
    /\ dequeued = <<>>
    /\ nput = 0
    /\ sigpc = "idle"
    /\ nsig = 0
    /\ stopWarnings = 0
    /\ stopDuring = FALSE
    /\ firstStop = NoStop
    /\ failedEarlier = FALSE

\* the worker is delivering the payload it took
Delivering == dpc \in {"dispatch", "execute"}

\* Thread.start(): the worker thread begins run
Start ==
    /\ dpc = "init"
    /\ dpc' = "loop"
    /\ UNCHANGED <<queue, stop_event, payload, webhooks, widx, dsent, dwarn,
                   dequeued, nput, sigpc, nsig, stopWarnings, stopDuring,
                   firstStop, failedEarlier>>
    /\ UNCHANGED <<rvars, lvars>>

\* self._queue.put(LogPayload(rec, urls)), by any producer thread
Put(urls) ==
    /\ nput < MaxPuts
    /\ queue' = Append(queue, LogPayload(nput + 1, QueuedRecord(nput + 1), urls))
    /\ nput' = nput + 1
    /\ UNCHANGED <<stop_event, dpc, payload, webhooks, widx, dsent, dwarn,
                   dequeued, sigpc, nsig, stopWarnings, stopDuring,
                   firstStop, failedEarlier>>
    /\ UNCHANGED <<rvars, lvars>>

\* variant: a loop that drains the queue before it honours the stop event
RunLoopDrains ==
    /\ dpc = "loop"
    /\ dpc' = IF stop_event /\ queue = <<>> THEN "stop" ELSE "get"
    /\ UNCHANGED <<queue, stop_event, payload, webhooks, widx, dsent, dwarn,
                   dequeued, nput, sigpc, nsig, stopWarnings, stopDuring,
                   firstStop, failedEarlier>>
    /\ UNCHANGED <<rvars, lvars>>

\* run: while not self._stop_event.is_set()
RunLoop ==
    /\ dpc = "loop"
    /\ dpc' = IF stop_event THEN "stop" ELSE "get"
    /\ UNCHANGED <<queue, stop_event, payload, webhooks, widx, dsent, dwarn,
                   dequeued, nput, sigpc, nsig, stopWarnings, stopDuring,
                   firstStop, failedEarlier>>
    /\ UNCHANGED <<rvars, lvars>>

\* variant: a queue that hands out the item put last
RunGetNewest ==
    /\ dpc = "get"
    /\ queue # <<>>
    /\ payload' = queue[Len(queue)]
    /\ queue' = SubSeq(queue, 1, Len(queue) - 1)
    /\ dequeued' = Append(dequeued, queue[Len(queue)].id)
    /\ dsent' = <<>>
    /\ dwarn' = <<>>
    /\ stopDuring' = FALSE
    /\ failedEarlier' = (failedEarlier \/ dwarn # <<>>)
    /\ dpc' = "dispatch"
    /\ UNCHANGED <<stop_event, webhooks, widx, nput, sigpc, nsig, stopWarnings,
                   firstStop>>
    /\ UNCHANGED <<rvars, lvars>>

\* run: payload = self._queue.get(block=True, timeout=1), an item is there
RunGet ==
    /\ dpc = "get"
    /\ queue # <<>>
    /\ payload' = Head(queue)
    /\ queue' = Tail(queue)
    /\ dequeued' = Append(dequeued, Head(queue).id)
    /\ dsent' = <<>>
    /\ dwarn' = <<>>
    /\ stopDuring' = FALSE
    /\ failedEarlier' = (failedEarlier \/ dwarn # <<>>)
    /\ dpc' = "dispatch"
    /\ UNCHANGED <<stop_event, webhooks, widx, nput, sigpc, nsig, stopWarnings,
                   firstStop>>
    /\ UNCHANGED <<rvars, lvars>>

\* variant: get(block=True) without a timeout: on an empty queue it never returns
RunEmptyBlocks ==
    /\ dpc = "get"
    /\ queue = <<>>
    /\ FALSE
    /\ UNCHANGED vars

\* run: the get times out on an empty queue: except Empty: pass
RunEmpty ==
    /\ dpc = "get"
    /\ queue = <<>>
    /\ dpc' = "loop"
    /\ UNCHANGED <<queue, stop_event, payload, webhooks, widx, dsent, dwarn,
                   dequeued, nput, sigpc, nsig, stopWarnings, stopDuring,
                   firstStop, failedEarlier>>
    /\ UNCHANGED <<rvars, lvars>>

\* _dispatch, lines 203-206: one webhook per destination, each given the embed
DispatchBuild ==
    LET e == format_payload_embedded(payload.payload)
    IN  /\ dpc = "dispatch"
        /\ webhooks' = [i \in DOMAIN payload.url |-> [url |-> payload.url[i], embeds |-> <<e>>]]
        /\ widx' = 1
        /\ dpc' = IF payload.url = <<>> THEN "loop" ELSE "execute"
        /\ UNCHANGED <<queue, stop_event, payload, dsent, dwarn, dequeued, nput,
                       sigpc, nsig, stopWarnings, stopDuring,
                       firstStop, failedEarlier>>
        /\ UNCHANGED <<rvars, lvars>>

\* variant: a delivery loop that gives up the payload at the first failure
DispatchExecuteUntilFailure(status) ==
    /\ dpc = "execute"
    /\ dsent' = Append(dsent, Post(webhooks[widx].url, webhooks[widx].embeds, status))
    /\ webhooks' = [webhooks EXCEPT ![widx].embeds = <<>>]
    /\ dwarn' = IF status # StatusOk
                THEN Append(dwarn, DispatchWarning(webhooks[widx].url, status))
                ELSE dwarn
    /\ widx' = widx + 1
    /\ dpc' = IF widx = Len(webhooks) \/ status # StatusOk THEN "loop" ELSE "execute"
    /\ UNCHANGED <<queue, stop_event, payload, dequeued, nput, sigpc, nsig,
                   stopWarnings, stopDuring,
                   firstStop, failedEarlier>>
    /\ UNCHANGED <<rvars, lvars>>

\* variant: a delivery loop that looks at the stop event before each destination
DispatchExecuteUnlessStopped(status) ==
    /\ dpc = "execute"
    /\ IF stop_event
       THEN /\ dpc' = "loop"
            /\ UNCHANGED <<dsent, webhooks, dwarn, widx>>
       ELSE /\ dsent' = Append(dsent, Post(webhooks[widx].url, webhooks[widx].embeds, status))
            /\ webhooks' = [webhooks EXCEPT ![widx].embeds = <<>>]
            /\ dwarn' = IF status # StatusOk
                        THEN Append(dwarn, DispatchWarning(webhooks[widx].url, status))
                        ELSE dwarn
            /\ widx' = widx + 1
            /\ dpc' = IF widx = Len(webhooks) THEN "loop" ELSE "execute"
    /\ UNCHANGED <<queue, stop_event, payload, dequeued, nput, sigpc, nsig,
                   stopWarnings, stopDuring,
                   firstStop, failedEarlier>>
    /\ UNCHANGED <<rvars, lvars>>

\* variant: a delivery whose failure ends the worker thread
DispatchExecuteEndsWorker(status) ==
    /\ dpc = "execute"
    /\ dsent' = Append(dsent, Post(webhooks[widx].url, webhooks[widx].embeds, status))
    /\ webhooks' = [webhooks EXCEPT ![widx].embeds = <<>>]
    /\ dwarn' = IF status # StatusOk
                THEN Append(dwarn, DispatchWarning(webhooks[widx].url, status))
                ELSE dwarn
    /\ widx' = widx + 1
    /\ dpc' = IF status # StatusOk THEN "done"
              ELSE IF widx = Len(webhooks) THEN "loop" ELSE "execute"
    /\ UNCHANGED <<queue, stop_event, payload, dequeued, nput, sigpc, nsig,
                   stopWarnings, stopDuring, firstStop, failedEarlier>>
    /\ UNCHANGED <<rvars, lvars>>

\* _dispatch, lines 208-211: execute the next webhook and warn when the
\* status is not 200; after the last one _dispatch returns to run's loop
DispatchExecute(status) ==
    /\ dpc = "execute"
    /\ dsent' = Append(dsent, Post(webhooks[widx].url, webhooks[widx].embeds, status))
    /\ webhooks' = [webhooks EXCEPT ![widx].embeds = <<>>]
    /\ dwarn' = IF status # StatusOk
                THEN Append(dwarn, DispatchWarning(webhooks[widx].url, status))
                ELSE dwarn
    /\ widx' = widx + 1
    /\ dpc' = IF widx = Len(webhooks) THEN "loop" ELSE "execute"
    /\ UNCHANGED <<queue, stop_event, payload, dequeued, nput, sigpc, nsig,
                   stopWarnings, stopDuring,
                   firstStop, failedEarlier>>
    /\ UNCHANGED <<rvars, lvars>>

\* _stop: warn when the queue is not empty
StopWarning == IF queue # <<>> THEN stopWarnings + 1 ELSE stopWarnings

\* run: the loop is left: self._stop(), and the thread ends
RunStop ==
    /\ dpc = "stop"
    /\ stopWarnings' = StopWarning
    /\ dpc' = "done"
    /\ UNCHANGED <<queue, stop_event, payload, webhooks, widx, dsent, dwarn,
                   dequeued, nput, sigpc, nsig, stopDuring, firstStop, failedEarlier>>
    /\ UNCHANGED <<rvars, lvars>>

\* stop(), by any thread
Stop ==
    /\ ~stop_event
    /\ stop_event' = TRUE
    /\ stopDuring' = (stopDuring \/ Delivering)
    /\ firstStop' = StopRequest(Waiting, Len(dequeued))
    /\ UNCHANGED <<queue, dpc, payload, webhooks, widx, dsent, dwarn, dequeued,
                   nput, sigpc, nsig, stopWarnings, failedEarlier>>
    /\ UNCHANGED <<rvars, lvars>>

\* _sig_handler, run by the main thread when a handled signal arrives:
\* self._stop_event.set()
SigHandlerSet ==
    /\ sigpc = "idle"
    /\ nsig < MaxSignals
    /\ nsig' = nsig + 1
    /\ stop_event' = TRUE
    /\ stopDuring' = (stopDuring \/ Delivering)
    /\ firstStop' = IF stop_event THEN firstStop ELSE StopRequest(Waiting, Len(dequeued))
    /\ sigpc' = "stop"
    /\ UNCHANGED <<queue, dpc, payload, webhooks, widx, dsent, dwarn, dequeued,
                   nput, stopWarnings, failedEarlier>>
    /\ UNCHANGED <<rvars, lvars>>

\* _sig_handler: self._stop()
SigHandlerStop ==
    /\ sigpc = "stop"
    /\ stopWarnings' = StopWarning
    /\ sigpc' = "idle"
    /\ UNCHANGED <<queue, stop_event, dpc, payload, webhooks, widx, dsent, dwarn,
                   dequeued, nput, nsig, stopDuring,
                   firstStop, failedEarlier>>
    /\ UNCHANGED <<rvars, lvars>>

\* the steps of the worker thread
Worker ==
    \/ RunLoop
    \/ RunGet
    \/ RunEmpty
    \/ DispatchBuild
    \/ \E status \in Statuses : DispatchExecute(status)
    \/ RunStop

NextDispatcher ==
    \/ Start
    \/ \E urls \in UrlLists : Put(urls)
    \/ RunLoop
    \/ RunGet
    \/ RunEmpty
    \/ DispatchBuild
    \/ \E status \in Statuses : DispatchExecute(status)
    \/ RunStop
    \/ Stop
    \/ SigHandlerSet
    \/ SigHandlerStop

(***************************************************************************)
(* Specifications.  Each part runs with the other parts at rest.           *)
(***************************************************************************)
RegistryAtRest == InitRegistry /\ envUrl = DummyUrl
LoggerAtRest == InitLogger /\ level = INFO /\ optional_fields = {}

Init == InitRegistry /\ InitLogger /\ InitDispatcher

InitSpecRegistry == InitRegistry /\ LoggerAtRest /\ InitDispatcher
InitSpecLogger == RegistryAtRest /\ InitLogger /\ InitDispatcher
InitSpecDispatcher == RegistryAtRest /\ LoggerAtRest /\ InitDispatcher

SpecRegistry == InitSpecRegistry /\ [][NextRegistry]_vars
SpecLogger == InitSpecLogger /\ [][NextLogger]_vars
SpecDispatcher == InitSpecDispatcher /\ [][NextDispatcher]_vars

\* The registry once the import is over: "manager = LoggerManager()" has run in
\* the main thread, and only then can other threads reach get_logger.
InitImported ==
    /\ instance = 1
    /\ manager = 1
    /\ lock = 0
    /\ registry = [n \in Names |-> 0]
    /\ loggers = <<>>
    /\ dispatchers = 1
    /\ sigHandler = [s \in sig_to_handle |-> 1]
    /\ envUrl \in {"", DummyUrl}
    /\ rpc = [t \in Threads |-> "idle"]
    /\ rcall = [t \in Threads |-> NoCall]
    /\ robj = [t \in Threads |-> 0]
    /\ rret = [t \in Threads |->
                  IF IsMainThread(t)
                  THEN Returned([NoCall EXCEPT !.op = "LoggerManager"], "manager", 1)
                  ELSE NoRet]
    /\ managersCreated = 1
    /\ firstReg = [n \in Names |-> 0]
    /\ mcalls = 1
    /\ failedNames = {}
    /\ cargs = NoConstructArgs
    /\ cres = NoConstructed

\* no LoggerManager() or get_logger call is in progress
NoCallInProgress == \A u \in Threads : rpc[u] = "idle"

\* get_logger calls made by any thread, one call at a time
NextGetLogger ==
    \/ /\ NoCallInProgress
       /\ \E t \in Threads, name \in NameArgs, kwargs \in KwargSets :
              GetLoggerCall(t, name, kwargs)
    \/ \E t \in Threads : GetLoggerInsert(t)
    \/ \E t \in Threads : GetLoggerReturn(t)

InitSpecGetLogger == InitImported /\ LoggerAtRest /\ InitDispatcher
SpecGetLogger == InitSpecGetLogger /\ [][NextGetLogger]_vars

\* the arguments tried in direct constructions: with and without URL, levels
\* that parse and levels that do not, every combination of the embed flags,
\* with and without embed_all, with and without the keyword payload_type=2
ConstructLevels == {EnumLevel(INFO), StrLevel("DEBUG"), IntLevel(60), StrLevel("error")}
ConstructInputs ==
    {ConstructArgs(AppName, url, lv, flags, all, extra) :
        url \in {"", LoggerUrl}, lv \in ConstructLevels, flags \in SUBSET OptionalKeySet,
        all \in BOOLEAN, extra \in {{}, {"payload_type"}}}

NextConstruct == \E args \in ConstructInputs, rejects \in BOOLEAN : Construct(args, rejects)

\* every part together
Next == NextRegistry \/ NextConstruct \/ NextLogger \/ NextDispatcher
Spec == Init /\ [][Next]_vars

InitSpecConstruct == InitImported /\ LoggerAtRest /\ InitDispatcher
SpecConstruct == InitSpecConstruct /\ [][NextConstruct]_vars

\* A logger constructed directly with any of the arguments of ConstructInputs
\* that __init__ accepts, so with any combination of the embed flags, embed_all
\* included, before its first log call.
InitLoggerConstructed ==
    /\ \E args \in ConstructInputs :
          LET new == DiscordLoggerInitAll(args, DummyUrl, FALSE)
          IN  /\ new.kind = "logger"
              /\ level = new.obj.level
              /\ optional_fields = new.obj.optional_fields
    /\ embeds = <<>>
    /\ lpc = [t \in Threads |-> "idle"]
    /\ lcall = [t \in Threads |-> NoLogCall]
    /\ lrec = [t \in Threads |-> NoRecord]
    /\ lresp = [t \in Threads |-> 0]
    /\ lsent = [t \in Threads |-> <<>>]
    /\ lwarn = [t \in Threads |-> <<>>]
    /\ linspect = [t \in Threads |-> 0]
    /\ lattach = [t \in Threads |-> 0]
    /\ last = NoLast
    /\ failedBefore = FALSE

\* log calls that pass the filter, one at a time, from any thread and stack
\* depth, and every embed_* setter between them
NextFields ==
    \/ \E t \in Threads, d \in 1..MaxDepth :
           NoLogInProgress /\ LogCall(t, EnumLevel(ERROR), "x", d)
    \/ \E t \in Threads : DispatchEmbed(t)
    \/ \E t \in Threads, status \in Statuses : ExecutePost(t, status)
    \/ \E t \in Threads : ExecuteRemoveEmbeds(t)
    \/ \E t \in Threads : LogResponse(t)
    \/ \E key \in OptionalKeySet, value \in BOOLEAN : NoLogInProgress /\ SetEmbed(key, value)

InitSpecFields == RegistryAtRest /\ InitLoggerConstructed /\ InitDispatcher
SpecFields == InitSpecFields /\ [][NextFields]_vars

\* log calls that pass the filter, made by the threads concurrently on the
\* one logger: every step of a call may interleave with those of the others
NextConcurrentLog ==
    \/ \E t \in Threads, msg \in Messages : LogCall(t, EnumLevel(ERROR), msg, MaxDepth)
    \/ \E t \in Threads : DispatchEmbed(t)
    \/ \E t \in Threads, status \in Statuses : ExecutePost(t, status)
    \/ \E t \in Threads : ExecuteRemoveEmbeds(t)
    \/ \E t \in Threads : LogResponse(t)

\* a logger of level INFO, with no embed flag or with all of them
InitSpecConcurrentLog == RegistryAtRest /\ InitLogger /\ level = INFO /\ InitDispatcher
SpecConcurrentLog == InitSpecConcurrentLog /\ [][NextConcurrentLog]_vars

\* The worker is a thread of its own: once started it keeps taking steps (a
\* get returns or times out, an execute is answered).
FairDispatcher == SpecDispatcher /\ WF_vars(Worker)

\* The dispatcher when nobody calls stop() and no handled signal arrives: the
\* caller starts the worker, producers put payloads, the worker runs.
NextRunning ==
    \/ Start
    \/ \E urls \in UrlLists : Put(urls)
    \/ RunLoop
    \/ RunGet
    \/ RunEmpty
    \/ DispatchBuild
    \/ \E status \in Statuses : DispatchExecute(status)

InitSpecRunning == RegistryAtRest /\ LoggerAtRest /\ InitDispatcher
SpecRunning == InitSpecRunning /\ [][NextRunning]_vars
FairRunning == SpecRunning /\ WF_vars(Worker)

(***************************************************************************)
(* Claims about the registry, checked under SpecRegistry.                  *)
(***************************************************************************)
Constructed(n) == {i \in DOMAIN loggers : loggers[i].app_name = n}

\* C1: when several threads call get_logger with the same unregistered name,
\* exactly one DiscordLogger is ever constructed for that name and all the
\* calls return that same instance.
C1_OneLoggerPerName ==
    /\ \A n \in Names : Cardinality(Constructed(n)) <= 1
    /\ \A t, u \in Threads :
          (rret[t].kind = "logger" /\ rret[u].kind = "logger"
             /\ rret[t].name = rret[u].name) => rret[t].val = rret[u].val

\* C4: a get_logger call that begins after its name was registered returns
\* the instance stored by the first registration of that name.
C4_FirstRegistrationWins ==
    \A t \in Threads :
        (rret[t].kind = "logger" /\ rret[t].late)
            => rret[t].val = firstReg[rret[t].name]

\* C9: every LoggerManager() call returns the one instance, which __new__
\* creates once, with its registry, and never creates again.
C9_SingletonEveryCall ==
    /\ managersCreated <= 1
    /\ \A t \in Threads :
          rret[t].op = "LoggerManager"
              => (rret[t].kind = "manager" /\ rret[t].val = instance)

\* C10: the dispatcher is constructed once per process, however many times
\* LoggerManager() is called, and the signal handlers are those of that one
\* dispatcher.
C10_OneDispatcher ==
    /\ dispatchers <= 1
    /\ \A s \in sig_to_handle : sigHandler[s] \in {0, 1}

(***************************************************************************)
(* Claims about log, checked under SpecLogger (one caller at a time).      *)
(***************************************************************************)
\* the level of the call in last, when it is a valid one
LastLevel == parse_level(last.call.level)

\* C2: a finished call with a valid level below the threshold made no POST,
\* attached no embed, inspected no caller and raised no warning; one with a
\* valid level at or above the threshold made exactly one POST, which carried
\* exactly one embed, that of the call's own level and message.
C2_FilterThenOneSend ==
    (last.out # "none" /\ LastLevel.ok) =>
        IF LastLevel.val < last.call.threshold
        THEN /\ last.out = "filtered"
             /\ last.sent = <<>>
             /\ last.attach = 0
             /\ last.inspect = 0
             /\ last.warn = <<>>
        ELSE /\ last.out = "sent"
             /\ Len(last.sent) = 1
             /\ Len(last.sent[1].embeds) = 1
             /\ last.sent[1].embeds[1].title = LevelName(LastLevel.val)
             /\ last.sent[1].embeds[1].description = last.call.message

\* C2 witness: a call sent its one embed after an earlier call had failed
C2_Witness ==
    /\ last.out = "sent"
    /\ failedBefore
    /\ Len(last.sent) = 1
    /\ Len(last.sent[1].embeds) = 1

\* C6: a call at or above the threshold that is answered with a status other
\* than 200 returns (it does not raise) having raised exactly one warning,
\* with that status; answered with 200 it raised none.
C6_OneWarningPerFailure ==
    (last.out # "none" /\ LastLevel.ok /\ LastLevel.val >= last.call.threshold) =>
        /\ last.out = "sent"
        /\ Len(last.sent) = 1
        /\ IF last.sent[1].status # StatusOk
           THEN last.warn = <<LogWarning(last.sent[1].status)>>
           ELSE last.warn = <<>>

\* C6 witness: a call was answered with a status other than 200
C6_Witness ==
    /\ last.out = "sent"
    /\ Len(last.sent) = 1
    /\ last.sent[1].status # StatusOk
    /\ Len(last.warn) = 1

(***************************************************************************)
(* Claims about the dispatcher, checked under SpecDispatcher and, for      *)
(* termination, FairDispatcher.                                            *)
(***************************************************************************)
\* C3: the payloads are taken in the order they were put, each once: the k-th
\* payload taken is the k-th payload put, and the queue holds the rest in order.
C3_Fifo ==
    /\ \A i \in DOMAIN dequeued : dequeued[i] = i
    /\ \A i \in DOMAIN queue : queue[i].id = Len(dequeued) + i

\* C3 witness: payloads were put while the worker ran, and two have been taken
C3_Witness ==
    /\ Len(dequeued) >= 2
    /\ queue # <<>>

\* the POSTs among ps that were answered with a status other than 200
Failing(ps) == SelectSeq(ps, LAMBDA p : p.status # StatusOk)

C7_StopDoesNotCutDelivery ==
    (stopDuring /\ ~Delivering) =>
        /\ Len(dsent) = Len(payload.url)
        /\ \A i \in DOMAIN dsent : dsent[i].url = payload.url[i] /\ Len(dsent[i].embeds) = 1

\* C7 witness: a stop came during a delivery to two destinations, which then completed
C7_Witness ==
    /\ stopDuring
    /\ ~Delivering
    /\ Len(dsent) = 2

\* C8: once a stop is requested, a started worker eventually leaves its loop
\* and ends, whether or not the queue is empty.
C8_StopTerminates == (stop_event /\ dpc # "init") ~> (dpc = "done")

\* C8 witness: the worker ended after a stop although no payload was ever put
C8_Witness ==
    /\ stop_event
    /\ dpc = "done"
    /\ nput = 0

(***************************************************************************)
(* Claims about the worker of the registry's dispatcher, checked under     *)
(* SpecRegistry: the dispatcher is the one LoggerManager.__init__          *)
(* constructs, and only the registry's own code acts on it.                *)
(***************************************************************************)
\* the run loop has been entered and not left
WorkerRunning == dpc \in {"loop", "get", "dispatch", "execute"}

\* C11: once the registry is constructed, the worker of its dispatcher is
\* running, and stays so as long as no stop is requested.
C11_WorkerRunsOnceConstructed == (manager # 0 /\ ~stop_event) => WorkerRunning

(***************************************************************************)
(* Claims about the level argument of log, checked under SpecLogger.       *)
(***************************************************************************)
\* the logger is as the call in last found it: threshold, flags, no embed held
LoggerAsBefore ==
    /\ level = last.call.threshold
    /\ optional_fields = last.call.flags
    /\ embeds = <<>>

\* C12: whatever the threshold, a log call whose level is a string that is not
\* one of the six names, in upper case, raises (KeyError, from the lookup by
\* name), makes no POST, attaches no embed and leaves the logger as it was.
C12_UnknownNameRaises ==
    (last.out # "none" /\ last.call.level.type = "str"
        /\ last.call.level.str \notin LevelNames) =>
        /\ last.out = "KeyError"
        /\ last.sent = <<>>
        /\ last.attach = 0
        /\ last.warn = <<>>
        /\ LoggerAsBefore

\* C12 witness: a name in lower case was refused by a logger whose threshold
\* is above the level the name would stand for
C12_Witness ==
    /\ last.call.level = StrLevel("error")
    /\ last.out = "KeyError"
    /\ last.call.threshold = CRITICAL

\* C13: whatever the threshold, a log call whose level is an int that is not
\* the value of a level raises ValueError and makes no POST, whether the int
\* is below or above the threshold.
C13_UnknownIntRaises ==
    (last.out # "none" /\ last.call.level.type = "int"
        /\ last.call.level.int \notin LevelValues) =>
        /\ last.out = "ValueError"
        /\ last.sent = <<>>

(***************************************************************************)
(* Claims about failing get_logger calls, checked under SpecGetLogger (one *)
(* call at a time).                                                         *)
(***************************************************************************)
\* thread t's get_logger call ends in this step, with an outcome of kind k
GetLoggerEnds(t, k) ==
    /\ rret'[t] # rret[t]
    /\ rret'[t].op = "get_logger"
    /\ rret'[t].kind = k

\* C14: a get_logger call that raises (TypeError for a name that is not a str,
\* EnvironmentError when no URL is given and none is in the environment) adds
\* no entry and leaves the entries as they were; a call for a name that had
\* failed, made with a URL that resolves, returns a logger constructed for that
\* name, with its URL, and registered under it.
C14_FailedCallLeavesRegistry ==
    [][\A t \in Threads :
          /\ GetLoggerEnds(t, "raise") =>
                /\ rret'[t].exc \in {"TypeError", "EnvironmentError"}
                /\ registry' = registry
                /\ loggers' = loggers
                /\ firstReg' = firstReg
          /\ (GetLoggerEnds(t, "logger") /\ rret'[t].retry) =>
                /\ rret'[t].val # 0
                /\ registry'[rret'[t].name] = rret'[t].val
                /\ loggers'[rret'[t].val].app_name = rret'[t].name
                /\ loggers'[rret'[t].val].url # ""]_vars

\* C14 witness: a call for a name failed for want of a URL while another name
\* was registered, and a later call for the same name, begun while the name
\* was still unregistered, returned the logger it registered
C14_Witness ==
    \E t \in Threads, n \in Names :
        /\ rret[t].kind = "logger"
        /\ rret[t].retry
        /\ ~rret[t].late
        /\ rret[t].name = n
        /\ registry[n] = rret[t].val
        /\ \E o \in Names \ {n} : registry[o] # 0 /\ registry[o] < registry[n]

(***************************************************************************)
(* Claims about the construction of a DiscordLogger, checked under         *)
(* SpecConstruct.                                                          *)
(***************************************************************************)
\* C15: a DiscordLogger constructed with a payload-format mode the package
\* does not support (payload_type=2) raises ValueError, so that no logger is
\* ever constructed with such a mode.
C15_UnknownModeRaises ==
    ("payload_type" \in cargs.extra) => (cres.kind = "raise" /\ cres.exc = "ValueError")

(***************************************************************************)
(* Claims about the delivery warnings of both paths; the direct-send half  *)
(* is checked under SpecLogger, the dispatcher half under SpecDispatcher.  *)
(***************************************************************************)
\* a warning that names a destination and a status
NamesDestinationAndStatus(w, url, status) == w.url = url /\ w.status = status

\* the warnings of the dispatcher name the destination that failed and its status
DispatchWarningsNameDestination ==
    \A i \in DOMAIN dwarn :
        NamesDestinationAndStatus(dwarn[i], Failing(dsent)[i].url, Failing(dsent)[i].status)

\* C16: every delivery warning, raised by log on the direct-send path or by
\* the dispatcher, names the destination that failed and the status received.
C16_WarningNamesDestination ==
    /\ \A i \in DOMAIN last.warn :
          NamesDestinationAndStatus(last.warn[i], LoggerUrl, last.sent[i].status)
    /\ DispatchWarningsNameDestination

(***************************************************************************)
(* Claims about the fields of the embed, checked under SpecLogger.         *)
(***************************************************************************)
\* the display order the fields are to have in an embed
DisplayOrder == <<"Thread", "Process", "Function", "Module", "Line">>

\* the display names of the fields of embed e, in the order the embed lists them
FieldNames(e) == [i \in DOMAIN e.fields |-> e.fields[i].name]

\* C17: the embed of a record lists its fields in the order Thread, Process,
\* Function, Module, Line, restricted to the fields it has.
C17_FieldsInDisplayOrder ==
    \A i \in DOMAIN last.sent : \A j \in DOMAIN last.sent[i].embeds :
        LET names == FieldNames(last.sent[i].embeds[j])
        IN  names = SelectSeq(DisplayOrder,
                              LAMBDA n : \E k \in DOMAIN names : names[k] = n)

(***************************************************************************)
(* Claims about the optional fields a log call exposes, checked under      *)
(* SpecFields.                                                             *)
(***************************************************************************)
\* the optional keys record rec holds a value for
Present(rec) == {k \in OptionalKeySet : rec[k].some}

\* C18: the record a log call builds has a value for exactly the optional
\* fields enabled as the call began, and the embed sent lists exactly those
\* fields, each once and with a value, never one that is disabled.
C18_ExactlyEnabledFields ==
    /\ \A t \in Threads :
          lpc[t] # "idle" => Present(lrec[t]) = lcall[t].flags
    /\ last.out = "sent" =>
          \A i \in DOMAIN last.sent : \A j \in DOMAIN last.sent[i].embeds :
              LET fs == last.sent[i].embeds[j].fields
              IN  /\ {fs[k].name : k \in DOMAIN fs}
                        = {embedded_key_to_name[key] : key \in last.call.flags}
                  /\ Len(fs) = Cardinality(last.call.flags)
                  /\ \A k \in DOMAIN fs : fs[k].value.some

\* C18 witness: a call made with process_name and module_name enabled, and
\* nothing else, sent an embed of two fields
C18_Witness ==
    /\ last.out = "sent"
    /\ last.call.flags = {"process_name", "module_name"}
    /\ Len(last.sent) = 1
    /\ Len(last.sent[1].embeds[1].fields) = 2

\* the frame that called log, when log is called from an application stack of
\* depth d: the innermost application frame
ImmediateCaller(d) == AppFrame(d)

\* C19: the function name, module name and line number a log call captures,
\* when enabled, are those of the frame that called log, at every depth of
\* the calling stack.
C19_CapturesImmediateCaller ==
    \A t \in Threads :
        lpc[t] # "idle" =>
            LET caller == ImmediateCaller(lcall[t].depth)
                flags == lcall[t].flags
            IN  /\ "func_name" \in flags => lrec[t].func_name = StrVal(caller.function)
                /\ "module_name" \in flags
                      => lrec[t].module_name = StrVal(LastComponent(caller.filename))
                /\ "line_number" \in flags => lrec[t].line_number = IntVal(caller.lineno)

(***************************************************************************)
(* Claims about concurrent log calls on one logger, checked under          *)
(* SpecConcurrentLog.                                                      *)
(***************************************************************************)
\* C20: when threads call log concurrently on one logger, at or above the
\* threshold, each call makes one POST, and that POST carries the embed of
\* the call's own record and nothing else.
C20_EachSendCarriesOwnEmbed ==
    \A t \in Threads :
        /\ Len(lsent[t]) <= 1
        /\ lpc[t] \in {"remove_embeds", "response"} => Len(lsent[t]) = 1
        /\ \A i \in DOMAIN lsent[t] :
              lsent[t][i].embeds = <<format_payload_embedded(lrec[t])>>


(***************************************************************************)
(* Claims about the end of the worker, checked under SpecDispatcher.       *)
(***************************************************************************)
\* the payloads taken since the stop event was first set
TakenSinceStop == Len(dequeued) - firstStop.taken

\* the queue still holds, at its head and in order, everything q held
KeepsQueued(q, q2) == Len(q2) >= Len(q) /\ SubSeq(q2, 1, Len(q)) = q

\* C21: once the stop event is set the worker takes at most one more payload,
\* and only when the set found it waiting in get; a stopped worker that is
\* not waiting never waits again; and once run has ended it stays ended: no
\* payload is taken, no POST is made, and what the queue holds stays queued.
C21_LossyCooperativeStop ==
    /\ [](stop_event =>
            /\ firstStop.set
            /\ TakenSinceStop \in {0, 1}
            /\ TakenSinceStop = 1 => firstStop.waiting)
    /\ [][(stop_event /\ ~Waiting) => ~Waiting']_vars
    /\ [][dpc = "done" =>
            /\ dpc' = "done"
            /\ dequeued' = dequeued
            /\ dsent' = dsent
            /\ KeepsQueued(queue, queue')]_vars

\* C21 witness: the stop() call found the worker waiting in get with payloads
\* queued; the worker took one more, delivered it, and ended with a payload
\* still in the queue
C21_Witness ==
    /\ dpc = "done"
    /\ nsig = 0
    /\ firstStop.waiting
    /\ TakenSinceStop = 1
    /\ Len(dsent) = 2
    /\ stopWarnings = 1
    /\ queue # <<>>


\* run leaves its loop and ends: the step of self._stop() at line 190
WorkerExits == dpc = "stop" /\ dpc' = "done"

\* the "Dispatcher queue not empty" warnings due for a worker that stops with q queued
DueStopWarnings(q) == IF q # <<>> THEN 1 ELSE 0

\* by the time the worker has stopped, the warning has been raised once if the
\* queue is not empty and not at all if it is empty, and none is raised later
WarnsOncePerExit ==
    /\ WorkerExits => stopWarnings' = DueStopWarnings(queue)
    /\ dpc = "done" => stopWarnings' = stopWarnings

\* the same, in the behaviours where no signal arrives: stop() was the request
StopCallWarnsOncePerExit == [][nsig' = 0 => WarnsOncePerExit]_vars

\* C22: whether the stop was requested by stop() or by a handled signal, the
\* warning about pending payloads has been raised exactly once when the worker
\* stops with a non-empty queue, and not at all when it stops with an empty one.
C22_SignalAndStopWarnAlike == [][WarnsOncePerExit]_vars


(***************************************************************************)
(* Claims about a worker nobody stops, checked under FairRunning.          *)
(***************************************************************************)
\* payload i has been taken from the queue
Taken(i) == \E k \in DOMAIN dequeued : dequeued[k] = i

\* payload i has been dispatched: taken, and _dispatch has returned for it
\* with a POST made to each of its destinations
Dispatched(i) ==
    /\ Taken(i)
    /\ dequeued[Len(dequeued)] = i =>
           ~Delivering /\ Len(dsent) = Len(payload.url)

\* C23: with the worker started, every payload put on the queue is eventually
\* dispatched unless a stop is requested, whatever the destinations of the
\* payloads before it answered.
C23_EveryPayloadDispatched ==
    \A i \in 1..MaxPuts :
        (nput >= i /\ dpc # "init") ~> (stop_event \/ Dispatched(i))

\* C23 witness: no stop was requested, a POST for an earlier payload failed,
\* and the payload taken after it has been dispatched, with a POST made
C23_Witness ==
    /\ ~stop_event
    /\ failedEarlier
    /\ Len(dequeued) >= 2
    /\ Dispatched(dequeued[Len(dequeued)])
    /\ Len(dsent) >= 1

=============================================================================
